---------------------------- MODULE Spec2Model ----------------------------
(***************************************************************************)
(* Tarp simulator: a square cloth sheet as an N x N grid of point masses   *)
(* joined by structural and shear springs, advanced by Verlet integration  *)
(* and an iterated constraint relaxation (springs, drag, pins, ground),    *)
(* driven by a frame loop that turns key and mouse events into pin, unpin, *)
(* drag and reset requests.                                                *)
(*                                                                         *)
(* Numbers.  The source computes in float64 metres.  The model computes in *)
(* integer millimetres (fixed point, UNIT = 1000 per metre): a product or  *)
(* quotient is rounded to the nearest millimetre, a square root is rounded *)
(* down.  Vectors are triples <<x, y, z>>.                                 *)
(*                                                                         *)
(* A value that is computed once and read many times (a distance, the grid *)
(* a loop hands to its next pass) is bound by CHOOSE r \in {e(v) : v \in    *)
(* {x}} : TRUE, which is LET v == x IN e(v) with x evaluated once.          *)
(***************************************************************************)
EXTENDS Integers, Sequences, FiniteSets, TLC

\* Millimetres per metre: the fixed-point unit of every length of the model.
UNIT == 1000

(***************************************************************************)
(* Configuration constants of the drivers, in millimetres.                 *)
(***************************************************************************)
TARP_SIZE == 3000
POLE_HEIGHT == 1200
\* GRAVITY[1] = -9.8 m/s^2
GRAVITY_Y == -9800
\* dt = 1/60.0 s
FRAMES_PER_SECOND == 60

(***************************************************************************)
(* Fixed-point arithmetic.                                                 *)
(***************************************************************************)
Abs(a) == IF a < 0 THEN -a ELSE a

\* a / b rounded to the nearest integer (ties away from zero), b > 0.
RoundDiv(a, b) ==
    IF a >= 0 THEN (2 * a + b) \div (2 * b)
    ELSE -((2 * (-a) + b) \div (2 * b))

RECURSIVE SqrtFrom(_, _)
\* Integer Newton iteration: the integer part of the square root of n, from
\* a first guess x with x * x >= n.
SqrtFrom(n, x) ==
    IF x = 0 THEN 0
    ELSE CHOOSE r \in {IF y < x THEN SqrtFrom(n, y) ELSE x :
                           y \in {(x + n \div x) \div 2}} : TRUE

\* Integer part of the square root of n, 0 <= n < 2^31.
Isqrt(n) ==
    CHOOSE r \in {SqrtFrom(m, IF m < 46340 THEN m ELSE 46340) : m \in {n}} : TRUE

VAdd(a, b) == <<a[1] + b[1], a[2] + b[2], a[3] + b[3]>>
VSub(a, b) == <<a[1] - b[1], a[2] - b[2], a[3] - b[3]>>

\* np.linalg.norm(delta)
Norm(d) ==
    CHOOSE r \in {SqrtFrom(m, Abs(v[1]) + Abs(v[2]) + Abs(v[3])) :
                      v \in {d}, m \in {d[1] * d[1] + d[2] * d[2] + d[3] * d[3]}} : TRUE


(***************************************************************************)
(* Grid and topology (Tarp.__init__).                                      *)
(***************************************************************************)
\* The grid indices (i, j) of an n x n grid.
Indices(n) == (0 .. n - 1) \X (0 .. n - 1)

\* step = size / (num_points - 1)
Step(sz, n) == RoundDiv(sz, n - 1)

\* Mutant of ShearRest: the factor sqrt(2) is forgotten.
ShearRestNoRoot(st) == st

\* np.sqrt(2) * step (the step of a sheet of negative size is negative)
ShearRest(st) == IF st >= 0 THEN Isqrt(2 * st * st) ELSE -Isqrt(2 * st * st)

Spring(a, b, r) == [p1 |-> a, p2 |-> b, rest |-> r]

\* Mutant of CellSprings: the second shear spring of a cell is forgotten.
CellSpringsOneShear(n, st, i, j) ==
    (IF i < n - 1 THEN <<Spring(<<i, j>>, <<i + 1, j>>, st)>> ELSE <<>>)
    \o (IF j < n - 1 THEN <<Spring(<<i, j>>, <<i, j + 1>>, st)>> ELSE <<>>)
    \o (IF i < n - 1 /\ j < n - 1
        THEN <<Spring(<<i, j>>, <<i + 1, j + 1>>, Isqrt(2 * st * st))>>
        ELSE <<>>)

\* The springs one pass of the constructor's loop body appends for cell (i, j).
CellSprings(n, st, i, j) ==
    (IF i < n - 1 THEN <<Spring(<<i, j>>, <<i + 1, j>>, st)>> ELSE <<>>)
    \o (IF j < n - 1 THEN <<Spring(<<i, j>>, <<i, j + 1>>, st)>> ELSE <<>>)
    \o (IF i < n - 1 /\ j < n - 1
        THEN <<Spring(<<i, j>>, <<i + 1, j + 1>>, ShearRest(st)),
               Spring(<<i + 1, j>>, <<i, j + 1>>, ShearRest(st))>>
        ELSE <<>>)

RECURSIVE SpringsUpTo(_, _, _)
\* The spring list after the first c cells of the row-major double loop.
SpringsUpTo(n, st, c) ==
    IF c = 0 THEN <<>>
    ELSE SpringsUpTo(n, st, c - 1) \o CellSprings(n, st, (c - 1) \div n, (c - 1) % n)

\* self.springs as the constructor leaves it.
BuildSprings(sz, n) == SpringsUpTo(n, Step(sz, n), n * n)

(***************************************************************************)
(* The four driver variants of the repository.                             *)
(*   "high"  src/code.py            flat sheet 3 m up, ground at 0         *)
(*   "hang"  part_000 code (3).py   vertical sheet, top corners pinned     *)
(*   "flat"  part_000 code (5).py   flat sheet 1 cm above the ground       *)
(*   "drag"  part_000 code (9).py   flat sheet, mouse drag, pin in place   *)
(***************************************************************************)
Variants == {"high", "hang", "flat", "drag"}

\* Mutant of SolverIterations: one pass short.
SolverIterationsShort(v) == IF v = "drag" THEN 9 ELSE 4

\* SOLVER_ITERATIONS of each variant.
SolverIterations(v) == IF v = "drag" THEN 10 ELSE 5

\* The second argument of np.maximum in update's ground constraint.
GroundLevel(v, sz) == IF v = "hang" THEN -(sz * 2) ELSE 0

\* The position reset() gives particle (i, j).
LayoutPos(v, sz, n, idx) ==
    LET st == Step(sz, n)
        i == idx[1]
        j == idx[2]
        half == RoundDiv(sz, 2)
    IN  CASE v = "high" -> <<-half + j * st, 3 * UNIT, -half + i * st>>
          [] v = "hang" -> <<-half + j * st, half - i * st, 0>>
          [] OTHER -> <<-half + j * st, UNIT \div 100, -half + i * st>>

\* self.points after reset().
ResetPoints(v, sz, n) == [idx \in Indices(n) |-> LayoutPos(v, sz, n, idx)]

EmptyPins == [idx \in {} |-> <<0, 0, 0>>]

\* self.pinned_points[idx] = pos
PinInsert(pins, idx, pos) ==
    [k \in (DOMAIN pins) \cup {idx} |-> IF k = idx THEN pos ELSE pins[k]]

\* del self.pinned_points[idx]
PinDelete(pins, idx) == [k \in (DOMAIN pins) \ {idx} |-> pins[k]]

\* Mutant of ResetPins: the hanging sheet's second corner is not pinned.
ResetPinsOneCorner(v, sz, n) ==
    IF v = "hang"
    THEN [idx \in {<<0, 0>>} |-> <<-RoundDiv(sz, 2), RoundDiv(sz, 2), 0>>]
    ELSE [idx \in {} |-> <<0, 0, 0>>]

\* self.pinned_points after reset(): empty, but the hanging variant pins the
\* two top corners at their layout positions.
ResetPins(v, sz, n) ==
    IF v = "hang"
    THEN PinInsert(PinInsert(EmptyPins, <<0, 0>>, LayoutPos(v, sz, n, <<0, 0>>)),
                   <<0, n - 1>>, LayoutPos(v, sz, n, <<0, n - 1>>))
    ELSE EmptyPins

\* Mutant of TieoutIndices: mid is num_points // 2.
TieoutIndicesHalf(n) ==
    LET mid == n \div 2
        end == n - 1
    IN  << <<0, 0>>, <<0, mid>>, <<0, end>>,
           <<mid, 0>>, <<mid, mid>>, <<mid, end>>,
           <<end, 0>>, <<end, mid>>, <<end, end>> >>

\* get_tieout_indices(): a sequence of 9 grid indices (1-based in the model).
TieoutIndices(n) ==
    LET mid == (n - 1) \div 2
        end == n - 1
    IN  << <<0, 0>>, <<0, mid>>, <<0, end>>,
           <<mid, 0>>, <<mid, mid>>, <<mid, end>>,
           <<end, 0>>, <<end, mid>>, <<end, end>> >>

(***************************************************************************)
(* Physics kernel (Tarp.update).                                           *)
(***************************************************************************)
\* GRAVITY * dt * dt
GravityStep == <<0, RoundDiv(GRAVITY_Y, FRAMES_PER_SECOND * FRAMES_PER_SECOND), 0>>

\* Mutant of IntegratePoints: the velocity term is dropped.
IntegratePointsNoVelocity(pts, old, pins) ==
    [idx \in DOMAIN pts |->
        IF idx \in DOMAIN pins THEN pts[idx] ELSE VAdd(pts[idx], GravityStep)]

\* Verlet integration: the new points.
IntegratePoints(pts, old, pins) ==
    [idx \in DOMAIN pts |->
        IF idx \in DOMAIN pins THEN pts[idx]
        ELSE VAdd(pts[idx], VAdd(VSub(pts[idx], old[idx]), GravityStep))]

\* Mutant of IntegrateOld: the previous position of a pinned particle is
\* refreshed like that of a free one.
IntegrateOldRefreshAll(pts, old, pins) == [idx \in DOMAIN pts |-> pts[idx]]

\* Verlet integration: the new old_points.
IntegrateOld(pts, old, pins) ==
    [idx \in DOMAIN pts |-> IF idx \in DOMAIN pins THEN old[idx] ELSE pts[idx]]

\* Mutant of Correction: a quarter of the error instead of half of it.
CorrectionQuarter(delta, dist, rest) ==
    <<RoundDiv(delta[1] * (dist - rest), 4 * dist),
      RoundDiv(delta[2] * (dist - rest), 4 * dist),
      RoundDiv(delta[3] * (dist - rest), 4 * dist)>>

\* correction = delta * 0.5 * diff, diff = (dist - rest_length) / dist
Correction(delta, dist, rest) ==
    <<RoundDiv(delta[1] * (dist - rest), 2 * dist),
      RoundDiv(delta[2] * (dist - rest), 2 * dist),
      RoundDiv(delta[3] * (dist - rest), 2 * dist)>>

\* Mutant of ApplySpring: both endpoints are corrected, pinned or not.
ApplySpringNoPinCheck(pts, s, pins) ==
    LET delta == VSub(pts[s.p2], pts[s.p1])
        dist == Norm(delta)
    IN  IF dist > 0
        THEN LET c == Correction(delta, dist, s.rest)
             IN  [pts EXCEPT ![s.p1] = VAdd(@, c), ![s.p2] = VSub(@, c)]
        ELSE pts

\* Mutant of ApplySpring: a spring of length zero pushes its first end away.
ApplySpringPush(pts, s, pins) ==
    LET delta == VSub(pts[s.p2], pts[s.p1])
        dist == Norm(delta)
    IN  IF dist > 0
        THEN LET c == Correction(delta, dist, s.rest)
                 a == IF s.p1 \in DOMAIN pins THEN pts
                      ELSE [pts EXCEPT ![s.p1] = VAdd(@, c)]
             IN  IF s.p2 \in DOMAIN pins THEN a
                 ELSE [a EXCEPT ![s.p2] = VSub(@, c)]
        ELSE [pts EXCEPT ![s.p1] = VAdd(@, <<s.rest \div 2, 0, 0>>)]

\* One spring's correction of the points.
ApplySpring(pts, s, pins) ==
    LET delta == VSub(pts[s.p2], pts[s.p1])
    IN  CHOOSE r \in
          { IF dist > 0
            THEN LET c == Correction(delta, dist, s.rest)
                     a == IF s.p1 \in DOMAIN pins THEN pts
                          ELSE [pts EXCEPT ![s.p1] = VAdd(@, c)]
                 IN  IF s.p2 \in DOMAIN pins THEN a
                     ELSE [a EXCEPT ![s.p2] = VSub(@, c)]
            ELSE pts :
              dist \in {Norm(delta)} } : TRUE

RECURSIVE SpringsFrom(_, _, _, _)
\* The spring loop from the k-th spring on, in list order: each spring
\* reads the grid the springs before it have left.
SpringsFrom(pts, sprs, pins, k) ==
    IF k > Len(sprs) THEN pts
    ELSE CHOOSE r \in {SpringsFrom(q, sprs, pins, k + 1) :
                           q \in {ApplySpring(pts, sprs[k], pins)}} : TRUE

\* Spring constraints of one pass.
SpringPhase(pts, sprs, pins) == SpringsFrom(pts, sprs, pins, 1)

\* Mutant of DragScale: compliance 0.5.
DragScaleHalf(c) == <<RoundDiv(5 * c[1], 10), RoundDiv(5 * c[2], 10), RoundDiv(5 * c[3], 10)>>

\* correction_vec * 0.8
DragScale(c) == <<RoundDiv(8 * c[1], 10), RoundDiv(8 * c[2], 10), RoundDiv(8 * c[3], 10)>>

\* Drag constraint of one pass; info is <<>> (None) or <<[index, target_pos]>>.
DragPhase(pts, info) ==
    IF info = <<>> THEN pts
    ELSE LET d == info[1]
         IN  [pts EXCEPT ![d.index] = VAdd(@, DragScale(VSub(d.target_pos, @)))]

\* Mutant of PinPhase: pins are not enforced.
PinPhaseNone(pts, pins) == pts

\* Pinned point constraints of one pass.
PinPhase(pts, pins) ==
    [idx \in DOMAIN pts |-> IF idx \in DOMAIN pins THEN pins[idx] ELSE pts[idx]]

\* Mutant of GroundPhase: no clamp.
GroundPhaseNone(pts, ground) == pts

\* Ground constraint of one pass.
GroundPhase(pts, ground) ==
    [idx \in DOMAIN pts |->
        <<pts[idx][1], IF pts[idx][2] >= ground THEN pts[idx][2] ELSE ground, pts[idx][3]>>]

(***************************************************************************)
(* Bounds of the model.                                                    *)
(***************************************************************************)
\* Largest grid dimension of the simulated sheets (POINTS_PER_AXIS is 17).
MaxPoints == 3
\* Largest grid dimension the constructor is run for.
MaxCtorPoints == 6
\* Number of update() calls in a run.
MaxTicks == 2
\* Number of input events in a run.
MaxEvents == 2
\* Number of direct update() calls in a run of the kernel harness.
MaxKernelTicks == 1

\* Sheet sizes the constructor is run for, besides TARP_SIZE.
CtorSizes == {2 * UNIT, TARP_SIZE}

\* Arguments the constructor is called with when nothing is known of them:
\* sizes (negative, zero, TARP_SIZE), grid dimensions from -1 on, and
\* iteration counts (negative, zero, the one of src/code.py).
ArgSizes == {-(2 * UNIT), 0, TARP_SIZE}
ArgPoints == -1 .. MaxPoints
ArgIterations == {-1, 0, SolverIterations("high")}

\* Tie-out numbers (1..9) a right click may hit: a corner, the centre, an edge.
ClickTieouts == {1, 5, 6}

\* World positions gluUnProject may return for the mouse: one below the
\* ground plane, one above it.
DragTargets == {<<200, -500, 300>>, <<-1000, 800, 1000>>}

\* The two particles of the relaxation bench, and the three of its chain.
BenchParticles == {<<0, 0>>, <<0, 1>>}
BenchChain == {<<0, 0>>, <<0, 1>>, <<0, 2>>}

\* Pin tables of the bench's chain: none of its particles, the first, or
\* the first two.
BenchChainPins == {{}, {<<0, 0>>}, {<<0, 0>>, <<0, 1>>}}

\* Rest lengths of the bench's spring.
BenchRests == {3 * UNIT, 8 * UNIT}

\* Vectors of length 2 * r along which the bench's spring starts stretched:
\* two axes and a 3-4-5 diagonal.
BenchStretches(r) == {<<2 * r, 0, 0>>, <<0, 2 * r, 0>>, <<0, (6 * r) \div 5, (8 * r) \div 5>>}

\* Where the first particle of the bench starts.
BenchBase == <<0, UNIT, 0>>

\* Drag targets of the bench, as offsets from the dragged particle, all at
\* or above its height: multiples of 5^4 mm, so that four corrections are exact.
BenchDragOffsets == {<<625, 0, 0>>, <<-1250, 625, 0>>, <<1875, 2500, -625>>}

(***************************************************************************)
(* State.                                                                  *)
(***************************************************************************)
VARIABLES
    variant,                \* which driver runs
    size,                   \* Tarp.size
    num_points,             \* Tarp.num_points
    solver_iterations,      \* SOLVER_ITERATIONS
    springs,                \* Tarp.springs
    points,                 \* Tarp.points
    old_points,             \* Tarp.old_points
    pinned_points,          \* Tarp.pinned_points
    selected_tieout_index,  \* main: selected_tieout_index
    dragged_tieout_info,    \* main: <<>> (None) or <<index>>
    dragged_point_info,     \* argument of the current or last update():
                            \* <<>> (None) or <<[index, target_pos]>>
    pc,                     \* where the program is: "new", "ctor", "failed"
                            \* (construction), "events" (the frame loop),
                            \* "springs", "drag", "pins", "ground" (update)
    pass,                   \* update: completed relaxation passes
    cell,                   \* __init__: cells of the double loop done
    ticks,                  \* update() calls started
    events,                 \* input events handled
    last,                   \* the last operation completed, and its branch
                            \* ("reset_again": a reset right after a reset;
                            \* "click_off", "click_replace": a right click
                            \* while a drag is active, on the dragged
                            \* tie-out or on another one)
    raised                  \* an exception was raised

vars == <<variant, size, num_points, solver_iterations, springs, points, old_points, pinned_points,
          selected_tieout_index, dragged_tieout_info, dragged_point_info,
          pc, pass, cell, ticks, events, last, raised>>

config == <<variant, size, num_points, solver_iterations, springs, cell>>
physics == <<points, old_points, pinned_points>>

(***************************************************************************)
(* Construction.                                                           *)
(***************************************************************************)
\* main's locals before the loop.
MainInit ==
    /\ selected_tieout_index = 4
    /\ dragged_tieout_info = <<>>
    /\ dragged_point_info = <<>>
    /\ pass = 0
    /\ ticks = 0
    /\ events = 0
    /\ raised = FALSE

\* The state after tarp = Tarp(TARP_SIZE, POINTS_PER_AXIS).
Init ==
    /\ variant \in Variants
    /\ size = TARP_SIZE
    /\ num_points \in 2 .. MaxPoints
    /\ solver_iterations = SolverIterations(variant)
    /\ springs = BuildSprings(size, num_points)
    /\ points = ResetPoints(variant, size, num_points)
    /\ old_points = points
    /\ pinned_points = ResetPins(variant, size, num_points)
    /\ cell = num_points * num_points
    /\ pc = "events"
    /\ last = "init"
    /\ MainInit

\* Entry of Tarp.__init__: zeroed grids, no pins, no springs yet.
CtorInit ==
    /\ variant \in Variants
    /\ size \in CtorSizes
    /\ num_points \in 2 .. MaxCtorPoints
    /\ solver_iterations = SolverIterations(variant)
    /\ springs = <<>>
    /\ points = [idx \in Indices(num_points) |-> <<0, 0, 0>>]
    /\ old_points = points
    /\ pinned_points = EmptyPins
    /\ cell = 0
    /\ pc = "ctor"
    /\ last = "none"
    /\ MainInit

\* Tarp(size, num_points) of src/code.py about to be called with arguments
\* nobody has checked, under a SOLVER_ITERATIONS nobody has checked.
ArgsInit ==
    /\ variant = "high"
    /\ size \in ArgSizes
    /\ num_points \in ArgPoints
    /\ solver_iterations \in ArgIterations
    /\ springs = <<>>
    /\ points = [idx \in {} |-> <<0, 0, 0>>]
    /\ old_points = points
    /\ pinned_points = EmptyPins
    /\ cell = 0
    /\ pc = "new"
    /\ last = "none"
    /\ MainInit

\* The constructor up to its double loop.  np.zeros raises ValueError for a
\* negative dimension, and size / (num_points - 1) raises ZeroDivisionError
\* for num_points = 1 (size is a Python number); nothing else is looked at.
CtorEnter ==
    /\ pc = "new"
    /\ IF num_points < 0 \/ num_points = 1
       THEN /\ raised' = TRUE
            /\ pc' = "failed"
            /\ UNCHANGED <<points, old_points>>
       ELSE /\ points' = [idx \in Indices(num_points) |-> <<0, 0, 0>>]
            /\ old_points' = points'
            /\ pc' = "ctor"
            /\ UNCHANGED raised
    /\ UNCHANGED <<config, pinned_points, selected_tieout_index,
                   dragged_tieout_info, dragged_point_info, pass, ticks, events, last>>

\* One pass of the constructor's loop body.
CtorCell ==
    /\ pc = "ctor"
    /\ cell < num_points * num_points
    /\ springs' = springs \o CellSprings(num_points, Step(size, num_points),
                                         cell \div num_points, cell % num_points)
    /\ cell' = cell + 1
    /\ UNCHANGED <<variant, size, num_points, solver_iterations, physics,
                   selected_tieout_index, dragged_tieout_info, dragged_point_info,
                   pc, pass, ticks, events, last, raised>>

\* The constructor's closing self.reset().
CtorReset ==
    /\ pc = "ctor"
    /\ cell = num_points * num_points
    /\ points' = ResetPoints(variant, size, num_points)
    /\ old_points' = points'
    /\ pinned_points' = ResetPins(variant, size, num_points)
    /\ pc' = "events"
    /\ last' = "init"
    /\ UNCHANGED <<config, selected_tieout_index, dragged_tieout_info,
                   dragged_point_info, pass, ticks, events, raised>>

(***************************************************************************)
(* Event handlers of main.                                                 *)
(***************************************************************************)
\* The frame loop is at its event loop, and no exception has ended it.
Idle == pc = "events" /\ ~raised

\* A KEYDOWN or MOUSEBUTTONDOWN event can be handled.
CanHandle == Idle /\ events < MaxEvents

\* tarp.get_tieout_indices()[selected_tieout_index]
CurrentTieout == TieoutIndices(num_points)[selected_tieout_index + 1]

\* Mutant of OnLeft: the selection index is decremented without the modulo.
OnLeftNoWrap ==
    /\ Idle
    /\ selected_tieout_index' = selected_tieout_index - 1
    /\ last' = IF selected_tieout_index = 0 THEN "select_wrap" ELSE "select"
    /\ UNCHANGED <<config, physics, dragged_tieout_info, dragged_point_info,
                   pc, pass, ticks, raised>>

\* K_LEFT
OnLeft ==
    /\ Idle
    /\ selected_tieout_index' = (selected_tieout_index - 1) % 9
    /\ last' = IF selected_tieout_index = 0 THEN "select_wrap" ELSE "select"
    /\ UNCHANGED <<config, physics, dragged_tieout_info, dragged_point_info,
                   pc, pass, ticks, raised>>

\* K_LEFT, counted as one event of the run.
KeyLeft == CanHandle /\ OnLeft /\ events' = events + 1

\* K_RIGHT
OnRight ==
    /\ Idle
    /\ selected_tieout_index' = (selected_tieout_index + 1) % 9
    /\ last' = IF selected_tieout_index = 8 THEN "select_wrap" ELSE "select"
    /\ UNCHANGED <<config, physics, dragged_tieout_info, dragged_point_info,
                   pc, pass, ticks, raised>>

\* K_RIGHT, counted as one event of the run.
KeyRight == CanHandle /\ OnRight /\ events' = events + 1

\* Mutant of PinGuard: a pin is stored whether the index is pinned or not.
PinGuardAlways(pins, idx) == TRUE

\* The guard of a pin: the index is not yet in the pin table.
PinGuard(pins, idx) == idx \notin DOMAIN pins

\* The guard of an unpin: the index is in the pin table.
UnpinGuard(pins, idx) == idx \in DOMAIN pins

\* pos = np.copy(tarp.points[idx]); pos[1] = y
AtHeight(pos, y) == <<pos[1], y, pos[3]>>

\* Mutant of StakeTarget: K_s always pins the selected tie-out.
StakeTargetSelected == CurrentTieout

\* The index K_s pins: the dragged tie-out first, else the selected one.
StakeTarget ==
    IF variant = "drag" /\ dragged_tieout_info # <<>>
    THEN dragged_tieout_info[1]
    ELSE CurrentTieout

\* Mutant of StakePos: the stake is driven a metre into the ground.
StakePosBuried(v, pos) == IF v = "drag" THEN pos ELSE AtHeight(pos, -UNIT)

\* The target position K_s pins at: ground level, or (pin in place) where the
\* particle is.
StakePos(v, pos) == IF v = "drag" THEN pos ELSE AtHeight(pos, 0)

\* Mutant of KeyS: pinning the dragged tie-out leaves the drag active.
KeySKeepDrag ==
    /\ CanHandle
    /\ IF PinGuard(pinned_points, StakeTarget)
       THEN pinned_points' = PinInsert(pinned_points, StakeTarget,
                                       StakePos(variant, points[StakeTarget]))
       ELSE UNCHANGED pinned_points
    /\ events' = events + 1
    /\ last' = IF PinGuard(pinned_points, StakeTarget) THEN "stake" ELSE "stake_skip"
    /\ UNCHANGED <<config, points, old_points, selected_tieout_index,
                   dragged_tieout_info, dragged_point_info, pc, pass, ticks, raised>>

\* K_s
OnS ==
    /\ Idle
    /\ IF PinGuard(pinned_points, StakeTarget)
       THEN /\ pinned_points' = PinInsert(pinned_points, StakeTarget,
                                          StakePos(variant, points[StakeTarget]))
            /\ dragged_tieout_info' =
                 IF dragged_tieout_info # <<>> /\ dragged_tieout_info[1] = StakeTarget
                 THEN <<>> ELSE dragged_tieout_info
       ELSE UNCHANGED <<pinned_points, dragged_tieout_info>>
    /\ last' = IF PinGuard(pinned_points, StakeTarget) THEN "stake" ELSE "stake_skip"
    /\ UNCHANGED <<config, points, old_points, selected_tieout_index,
                   dragged_point_info, pc, pass, ticks, raised>>

\* K_s, counted as one event of the run.
KeyS == CanHandle /\ OnS /\ events' = events + 1

\* K_l (the pin-in-place driver has no such key)
OnL ==
    /\ Idle
    /\ variant # "drag"
    /\ IF PinGuard(pinned_points, CurrentTieout)
       THEN pinned_points' = PinInsert(pinned_points, CurrentTieout,
                                       AtHeight(points[CurrentTieout], POLE_HEIGHT))
       ELSE UNCHANGED pinned_points
    /\ last' = IF PinGuard(pinned_points, CurrentTieout) THEN "lift" ELSE "lift_skip"
    /\ UNCHANGED <<config, points, old_points, selected_tieout_index,
                   dragged_tieout_info, dragged_point_info, pc, pass, ticks, raised>>

\* K_l, counted as one event of the run.
KeyL == CanHandle /\ OnL /\ events' = events + 1

\* K_u; del of a key the dictionary does not hold raises KeyError.
OnU ==
    /\ Idle
    /\ IF UnpinGuard(pinned_points, CurrentTieout)
       THEN /\ pinned_points' = PinDelete(pinned_points, CurrentTieout)
            /\ raised' = (CurrentTieout \notin DOMAIN pinned_points)
       ELSE UNCHANGED <<pinned_points, raised>>
    /\ last' = IF UnpinGuard(pinned_points, CurrentTieout) THEN "unpin" ELSE "unpin_skip"
    /\ UNCHANGED <<config, points, old_points, selected_tieout_index,
                   dragged_tieout_info, dragged_point_info, pc, pass, ticks>>

\* K_u, counted as one event of the run.
KeyU == CanHandle /\ OnU /\ events' = events + 1

\* Mutant of KeyR: the drag survives the reset.
KeyRKeepDrag ==
    /\ CanHandle
    /\ points' = ResetPoints(variant, size, num_points)
    /\ old_points' = points'
    /\ pinned_points' = ResetPins(variant, size, num_points)
    /\ events' = events + 1
    /\ last' = IF last \in {"reset", "reset_again"} THEN "reset_again" ELSE "reset"
    /\ UNCHANGED <<config, selected_tieout_index, dragged_tieout_info,
                   dragged_point_info, pc, pass, ticks, raised>>

\* K_r: tarp.reset(), and the drag driver drops the drag.
OnR ==
    /\ Idle
    /\ points' = ResetPoints(variant, size, num_points)
    /\ old_points' = points'
    /\ pinned_points' = ResetPins(variant, size, num_points)
    /\ dragged_tieout_info' = <<>>
    /\ last' = IF last \in {"reset", "reset_again"} THEN "reset_again" ELSE "reset"
    /\ UNCHANGED <<config, selected_tieout_index, dragged_point_info,
                   pc, pass, ticks, raised>>

\* K_r, counted as one event of the run.
KeyR == CanHandle /\ OnR /\ events' = events + 1

\* Mutant of ToggleDrag: a click on another tie-out leaves the old drag.
ToggleDragKeep(info, idx) ==
    IF info = <<>> THEN <<idx>> ELSE IF info[1] = idx THEN <<>> ELSE info

\* The drag after a right click whose closest tie-out is idx: a click on the
\* dragged tie-out ends the drag, any other click starts a drag of idx.
ToggleDrag(info, idx) == IF info # <<>> /\ info[1] = idx THEN <<>> ELSE <<idx>>

\* MOUSEBUTTONDOWN, button 3, with tie-out number k the closest unpinned
\* tie-out within 15 pixels of the cursor.
OnRightClick ==
    /\ Idle
    /\ variant = "drag"
    /\ \E k \in ClickTieouts :
         LET idx == TieoutIndices(num_points)[k]
         IN  /\ idx \notin DOMAIN pinned_points
             /\ dragged_tieout_info' = ToggleDrag(dragged_tieout_info, idx)
             /\ last' = IF dragged_tieout_info = <<>> THEN "click"
                        ELSE IF dragged_tieout_info[1] = idx THEN "click_off"
                        ELSE "click_replace"
    /\ UNCHANGED <<config, physics, selected_tieout_index, dragged_point_info,
                   pc, pass, ticks, raised>>

\* MOUSEBUTTONDOWN, button 3, counted as one event of the run.
RightClick == CanHandle /\ OnRightClick /\ events' = events + 1

(***************************************************************************)
(* tarp.update(dt, drag_info_for_update), phase by phase.                  *)
(***************************************************************************)
\* The Verlet integration loop, entered with argument info; range() of a
\* count that is not positive is empty, and update() returns at once.
Integrate(info) ==
    /\ points' = IntegratePoints(points, old_points, pinned_points)
    /\ old_points' = IntegrateOld(points, old_points, pinned_points)
    /\ dragged_point_info' = info
    /\ pc' = IF solver_iterations > 0 THEN "springs" ELSE "events"
    /\ pass' = 0
    /\ ticks' = ticks + 1
    /\ last' = IF solver_iterations > 0 THEN "integrate" ELSE "update"
    /\ UNCHANGED <<config, pinned_points, selected_tieout_index,
                   dragged_tieout_info, events, raised>>

\* End of the event loop of a frame: the drag target is read from the mouse
\* and update() starts.  (K_SPACE only suspends this call: a paused stretch of
\* frames is a stretch of the run without UpdateBegin steps.)
UpdateBegin ==
    /\ pc = "events"
    /\ ~raised
    /\ ticks < MaxTicks
    /\ IF dragged_tieout_info = <<>>
       THEN Integrate(<<>>)
       ELSE \E t \in DragTargets :
                Integrate(<<[index |-> dragged_tieout_info[1], target_pos |-> t]>>)

\* update() called with any tie-out as the dragged point, pinned or not.
UpdateAnyDrag ==
    /\ pc = "events"
    /\ ~raised
    /\ variant = "drag"
    /\ ticks < MaxKernelTicks
    /\ \E k \in ClickTieouts, t \in DragTargets :
         Integrate(<<[index |-> TieoutIndices(num_points)[k], target_pos |-> t]>>)

\* Mutant of PhaseAfter: pins are enforced before the drag correction.
PhaseAfterPinsFirst(v, phase) ==
    CASE phase = "springs" -> "pins"
      [] phase = "pins" -> IF v = "drag" THEN "drag" ELSE "ground"
      [] phase = "drag" -> "ground"

\* The statement that follows a phase of a relaxation pass: springs, the drag
\* (only the drag driver's update has one), pins, ground.
PhaseAfter(v, phase) ==
    CASE phase = "springs" -> IF v = "drag" THEN "drag" ELSE "pins"
      [] phase = "drag" -> "pins"
      [] phase = "pins" -> "ground"

\* for p1_idx, p2_idx, rest_length in self.springs: ...
SpringsStep ==
    /\ pc = "springs"
    /\ points' = SpringPhase(points, springs, pinned_points)
    /\ pc' = PhaseAfter(variant, "springs")
    /\ last' = "springs"
    /\ UNCHANGED <<config, old_points, pinned_points, selected_tieout_index,
                   dragged_tieout_info, dragged_point_info, pass, ticks, events, raised>>

\* if dragged_point_info: ...
DragStep ==
    /\ pc = "drag"
    /\ points' = DragPhase(points, dragged_point_info)
    /\ pc' = PhaseAfter(variant, "drag")
    /\ last' = "drag"
    /\ UNCHANGED <<config, old_points, pinned_points, selected_tieout_index,
                   dragged_tieout_info, dragged_point_info, pass, ticks, events, raised>>

\* Mutant of PinsStep: a pin is dropped once it has been enforced.
PinsStepConsume ==
    /\ pc = "pins"
    /\ points' = PinPhase(points, pinned_points)
    /\ pinned_points' = EmptyPins
    /\ pc' = PhaseAfter(variant, "pins")
    /\ last' = "pins"
    /\ UNCHANGED <<config, old_points, selected_tieout_index,
                   dragged_tieout_info, dragged_point_info, pass, ticks, events, raised>>

\* for idx, pos in self.pinned_points.items(): self.points[idx] = pos
PinsStep ==
    /\ pc = "pins"
    /\ points' = PinPhase(points, pinned_points)
    /\ pc' = PhaseAfter(variant, "pins")
    /\ last' = "pins"
    /\ UNCHANGED <<config, old_points, pinned_points, selected_tieout_index,
                   dragged_tieout_info, dragged_point_info, pass, ticks, events, raised>>

\* The ground constraint closes the pass; the last pass closes update().
GroundStep ==
    /\ pc = "ground"
    /\ points' = GroundPhase(points, GroundLevel(variant, size))
    /\ pass' = pass + 1
    /\ IF pass + 1 < solver_iterations
       THEN pc' = "springs" /\ last' = "ground"
       ELSE pc' = "events" /\ last' = "update"
    /\ UNCHANGED <<config, old_points, pinned_points, selected_tieout_index,
                   dragged_tieout_info, dragged_point_info, ticks, events, raised>>

Relax == SpringsStep \/ DragStep \/ PinsStep \/ GroundStep

KeyDown == KeyLeft \/ KeyRight \/ KeyS \/ KeyL \/ KeyU \/ KeyR

\* The frame loop of main.
Next == KeyDown \/ RightClick \/ UpdateBegin \/ Relax

Spec == Init /\ [][Next]_vars

\* The event loop alone: no update() runs.  Only the keys that add a pin (K_s,
\* K_l) count against the event budget; the selection keys, K_u, K_r and the
\* right click may come any number of times, in any order.
PressLeft == OnLeft /\ UNCHANGED events

PressRight == OnRight /\ UNCHANGED events

PressU == OnU /\ UNCHANGED events

PressR == OnR /\ UNCHANGED events

PressRightClick == OnRightClick /\ UNCHANGED events

KeysNext ==
    PressLeft \/ PressRight \/ KeyS \/ KeyL \/ PressU \/ PressR \/ PressRightClick

SpecKeys == Init /\ [][KeysNext]_vars

\* The constructor, then the tie-out selection keys.
CtorNext == CtorCell \/ CtorReset \/ KeyLeft \/ KeyRight

SpecCtor == CtorInit /\ [][CtorNext]_vars

\* The Tarp of src/code.py constructed from unchecked arguments, then
\* updated frame after frame.
ArgsNext == CtorEnter \/ CtorCell \/ CtorReset \/ UpdateBegin
                \/ SpringsStep \/ PinsStep \/ GroundStep

SpecArgs == ArgsInit /\ [][ArgsNext]_vars

\* The drag driver's update() on a bench of two or three particles at rest
\* (the bench is a strip, not a square grid), entered at its first
\* relaxation pass, with no integration step before it (no gravity); later
\* updates integrate as usual.  The bench holds
\*   - one spring stretched to twice its rest length, one end pinned; or
\*   - no spring, no pin, and a drag of the first particle to a fixed target; or
\*   - a chain of two springs, the ends of the first at one place and the
\*     second stretched, with none, one or two of the coinciding particles
\*     pinned; or
\*   - one spring whose ends are at one place, both free, dragged or not.
BenchInit ==
    /\ variant = "drag"
    /\ size = TARP_SIZE
    /\ num_points = 2
    /\ solver_iterations = SolverIterations(variant)
    /\ cell = num_points * num_points
    /\ selected_tieout_index = 4
    /\ pc = "springs"
    /\ pass = 0
    /\ ticks = 0
    /\ events = 0
    /\ last = "none"
    /\ raised = FALSE
    /\ \/ \E r \in BenchRests : \E d \in BenchStretches(r) : \E e \in BenchParticles :
            /\ springs = <<Spring(<<0, 0>>, <<0, 1>>, r)>>
            /\ points = [idx \in BenchParticles |->
                            IF idx = <<0, 0>> THEN BenchBase ELSE VAdd(BenchBase, d)]
            /\ pinned_points = [idx \in {e} |-> points[idx]]
            /\ dragged_tieout_info = <<>>
            /\ dragged_point_info = <<>>
       \/ \E t \in BenchDragOffsets :
            /\ springs = <<>>
            /\ points = [idx \in BenchParticles |->
                            IF idx = <<0, 0>> THEN BenchBase
                            ELSE VAdd(BenchBase, <<UNIT, 0, 0>>)]
            /\ pinned_points = EmptyPins
            /\ dragged_tieout_info = << <<0, 0>> >>
            /\ dragged_point_info =
                 <<[index |-> <<0, 0>>, target_pos |-> VAdd(BenchBase, t)]>>
       \/ \E r \in BenchRests : \E d \in BenchStretches(r) : \E e \in BenchChainPins :
            /\ springs = <<Spring(<<0, 0>>, <<0, 1>>, r), Spring(<<0, 1>>, <<0, 2>>, r)>>
            /\ points = [idx \in BenchChain |->
                            IF idx = <<0, 2>> THEN VAdd(BenchBase, d) ELSE BenchBase]
            /\ pinned_points = [idx \in e |-> points[idx]]
            /\ dragged_tieout_info = <<>>
            /\ dragged_point_info = <<>>
       \/ \E r \in BenchRests :
            /\ springs = <<Spring(<<0, 0>>, <<0, 1>>, r)>>
            /\ points = [idx \in BenchParticles |-> BenchBase]
            /\ pinned_points = EmptyPins
            /\ \/ dragged_tieout_info = <<>> /\ dragged_point_info = <<>>
               \/ \E t \in BenchDragOffsets :
                    /\ dragged_tieout_info = << <<0, 0>> >>
                    /\ dragged_point_info =
                         <<[index |-> <<0, 0>>, target_pos |-> VAdd(BenchBase, t)]>>
    /\ old_points = points

BenchNext == UpdateBegin \/ SpringsStep \/ DragStep \/ PinsStep \/ GroundStep

SpecBench == BenchInit /\ [][BenchNext]_vars

\* The bench's pair of free particles at one place, joined by one spring,
\* with no drag.
PairInit ==
    /\ BenchInit
    /\ Len(springs) = 1
    /\ points[<<0, 0>>] = points[<<0, 1>>]
    /\ dragged_point_info = <<>>

\* A frame of the endless loop of main: update() starts again, with the
\* drag argument it had (ticks stops counting at MaxTicks).
PairFrame ==
    /\ pc = "events"
    /\ ~raised
    /\ points' = IntegratePoints(points, old_points, pinned_points)
    /\ old_points' = IntegrateOld(points, old_points, pinned_points)
    /\ pc' = "springs"
    /\ pass' = 0
    /\ ticks' = IF ticks < MaxTicks THEN ticks + 1 ELSE ticks
    /\ last' = "integrate"
    /\ UNCHANGED <<config, pinned_points, selected_tieout_index,
                   dragged_tieout_info, dragged_point_info, events, raised>>

PairNext == PairFrame \/ SpringsStep \/ DragStep \/ PinsStep \/ GroundStep

\* The pair under the frame loop's scheduling: `while True` starts the next
\* update() and every loop of update() runs to its end, so a step that can
\* be taken is taken.
SpecPairFair == PairInit /\ [][PairNext]_vars /\ WF_vars(PairNext)

\* The drag driver's Tarp with its update() called directly: any tie-out may
\* be the dragged point, whether the pin table holds it or not.
KernelInit == Init /\ variant = "drag"

KernelNext == KeyLeft \/ KeyRight \/ KeyS \/ KeyU \/ KeyR \/ UpdateAnyDrag \/ Relax

SpecKernel == KernelInit /\ [][KernelNext]_vars

(***************************************************************************)
(* Properties.                                                             *)
(***************************************************************************)
\* update() has returned and nothing has happened since.
AfterUpdate == pc = "events" /\ last = "update"

\* C1 (pin invariant): after any update(), every index of the pin table has
\* its current position exactly equal to the target the table stores for it.
PinInvariant ==
    AfterUpdate =>
        \A idx \in DOMAIN pinned_points : points[idx] = pinned_points[idx]

\* An update() has returned with a pinned particle whose target is not where
\* the particle was when it was pinned.
PinInvariantWitness ==
    /\ AfterUpdate
    /\ \E idx \in DOMAIN pinned_points :
         /\ pinned_points[idx] # old_points[idx]
         /\ points[idx] = pinned_points[idx]

\* C2 (ground invariant): after any update(), every particle is at or above
\* the ground level of the variant (0, or -2 * size for the hanging sheet).
GroundInvariant ==
    AfterUpdate =>
        \A idx \in DOMAIN points :
            points[idx][2] >= (IF variant = "hang" THEN -(2 * size) ELSE 0)

\* An update() has returned whose drag target lies below the ground: the
\* dragged particle was stopped at ground level.
GroundInvariantWitness ==
    /\ AfterUpdate
    /\ dragged_point_info # <<>>
    /\ dragged_point_info[1].target_pos[2] < 0
    /\ points[dragged_point_info[1].index][2] = 0

\* The constructor has returned.
Constructed == pc # "ctor"

\* Unordered endpoint pair of a spring.
Ends(s) == {s.p1, s.p2}

\* Two grid indices are horizontal or vertical lattice neighbours.
AxisAdjacent(a, b) == Abs(a[1] - b[1]) + Abs(a[2] - b[2]) = 1

\* Two grid indices are diagonal lattice neighbours.
DiagAdjacent(a, b) == Abs(a[1] - b[1]) = 1 /\ Abs(a[2] - b[2]) = 1

\* Positions in the spring list of the structural and of the shear springs.
StructuralAt == {k \in 1 .. Len(springs) : AxisAdjacent(springs[k].p1, springs[k].p2)}
ShearAt == {k \in 1 .. Len(springs) : DiagAdjacent(springs[k].p1, springs[k].p2)}

\* C3 (topology count): the constructor builds 2N(N-1) structural and
\* 2(N-1)^2 shear springs, nothing else, and no endpoint pair twice.
TopologyCount ==
    Constructed =>
        LET n == num_points
        IN  /\ Cardinality(StructuralAt) = 2 * n * (n - 1)
            /\ Cardinality(ShearAt) = 2 * (n - 1) * (n - 1)
            /\ Len(springs) = 2 * n * (n - 1) + 2 * (n - 1) * (n - 1)
            /\ \A a, b \in 1 .. Len(springs) :
                 a # b => Ends(springs[a]) # Ends(springs[b])

\* A 4 x 4 sheet has been constructed: 24 structural and 18 shear springs.
TopologyCountWitness ==
    /\ Constructed
    /\ num_points = 4
    /\ Len(springs) = 42
    /\ Cardinality(ShearAt) = 18

\* r is the integer part of sqrt(2) * st.
IsShearLength(r, st) == r * r <= 2 * st * st /\ 2 * st * st < (r + 1) * (r + 1)

\* C4 (rest lengths): every spring joins two distinct in-bounds lattice
\* neighbours; an axis-adjacent pair has rest length step = S / (N - 1), a
\* diagonal pair step * sqrt(2); and every axis-adjacent and every diagonal
\* pair of the lattice is joined by exactly one spring.
RestLengths ==
    Constructed =>
        LET n == num_points
            st == RoundDiv(size, n - 1)
        IN  /\ \A k \in 1 .. Len(springs) :
                 LET s == springs[k]
                 IN  /\ s.p1 \in Indices(n) /\ s.p2 \in Indices(n)
                     /\ s.p1 # s.p2
                     /\ \/ AxisAdjacent(s.p1, s.p2) /\ s.rest = st
                        \/ DiagAdjacent(s.p1, s.p2) /\ IsShearLength(s.rest, st)
            /\ \A a, b \in Indices(n) :
                 (AxisAdjacent(a, b) \/ DiagAdjacent(a, b)) =>
                     Cardinality({k \in 1 .. Len(springs) : Ends(springs[k]) = {a, b}}) = 1

\* A 3 x 3 sheet of size 2 m has been constructed: step 1000 mm, and the
\* diagonal of cell (0, 0) has rest length 1414 mm.
RestLengthsWitness ==
    /\ Constructed
    /\ num_points = 3
    /\ size = 2000
    /\ \E k \in 1 .. Len(springs) :
         /\ Ends(springs[k]) = {<<0, 0>>, <<1, 1>>}
         /\ springs[k].rest = 1414
    /\ \E k \in 1 .. Len(springs) :
         /\ Ends(springs[k]) = {<<0, 0>>, <<0, 1>>}
         /\ springs[k].rest = 1000

\* A step that is a K_r event.
ResetStep == events' = events + 1 /\ last' \in {"reset", "reset_again"}

\* The anchors reset() pins: the two top corners of the hanging sheet.
PrePinned == IF variant = "hang" THEN {<<0, 0>>, <<0, num_points - 1>>} ELSE {}

\* C5 as stated (reset determinism): a reset() right after a reset() leaves
\* the same grids, and after any reset() the pin table is empty.
ResetDeterminismEmptyTable ==
    [][ResetStep =>
          /\ pinned_points' = EmptyPins
          /\ last \in {"reset", "reset_again"} =>
                 (points' = points /\ old_points' = old_points)]_vars

\* C5 as amended: a reset() right after a reset() leaves the same grids and
\* the same pin table, and after any reset() the pin table holds exactly the
\* anchors the variant pre-pins (none, or the two top corners of the hanging
\* sheet), each at its particle's reset position.
ResetDeterminism ==
    [][ResetStep =>
          /\ DOMAIN pinned_points' = PrePinned
          /\ \A idx \in PrePinned : pinned_points'[idx] = points'[idx]
          /\ last \in {"reset", "reset_again"} =>
                 /\ points' = points
                 /\ old_points' = old_points
                 /\ pinned_points' = pinned_points]_vars

\* The hanging sheet has fallen for a tick and was then reset twice in a
\* row: its two top corners are pinned again.
ResetDeterminismWitness ==
    /\ last = "reset_again"
    /\ ticks >= 1
    /\ variant = "hang"
    /\ DOMAIN pinned_points = {<<0, 0>>, <<0, num_points - 1>>}

\* The c-th of the three anchor coordinates of an axis: 0, mid, end.
AnchorCoord(n, c) == IF c = 0 THEN 0 ELSE IF c = 1 THEN (n - 1) \div 2 ELSE n - 1

\* C6 (anchor lookup): get_tieout_indices() is the 3 x 3 row-major list of
\* the coordinates 0, mid = (N-1)//2, end = N-1, all in bounds, and for
\* N = 17 the list (0,0),(0,8),(0,16),(8,0),(8,8),(8,16),(16,0),(16,8),(16,16).
AnchorLookup ==
    LET n == num_points
        t == TieoutIndices(n)
    IN  /\ Len(t) = 9
        /\ \A k \in 0 .. 8 :
             /\ t[k + 1] = <<AnchorCoord(n, k \div 3), AnchorCoord(n, k % 3)>>
             /\ t[k + 1] \in DOMAIN points
        /\ CurrentTieout = t[selected_tieout_index + 1]
        /\ TieoutIndices(17) = << <<0, 0>>, <<0, 8>>, <<0, 16>>,
                                  <<8, 0>>, <<8, 8>>, <<8, 16>>,
                                  <<16, 0>>, <<16, 8>>, <<16, 16>> >>

\* On a constructed 4 x 4 sheet (mid = 1, end = 3) the right edge's middle
\* anchor is selected.
AnchorLookupWitness ==
    /\ Constructed
    /\ num_points = 4
    /\ selected_tieout_index = 5
    /\ CurrentTieout = <<1, 3>>

\* A step that is the integration loop of update().
IntegrateStep == pc = "events" /\ pc' = "springs"

\* C7 (integrator): the integration loop moves every particle outside the
\* pin table to current + (current - previous) + gravity * dt^2 and stores
\* its pre-update position as previous.
IntegratorStep ==
    [][IntegrateStep =>
          \A idx \in (DOMAIN points) \ (DOMAIN pinned_points) :
              /\ points'[idx] =
                    <<points[idx][1] + (points[idx][1] - old_points[idx][1]),
                      points[idx][2] + (points[idx][2] - old_points[idx][2])
                          + RoundDiv(GRAVITY_Y, 60 * 60),
                      points[idx][3] + (points[idx][3] - old_points[idx][3])>>
              /\ old_points'[idx] = points[idx]]_vars

\* The second integration of a run has just moved a free particle that had
\* a velocity of its own.
IntegratorStepWitness ==
    /\ last = "integrate"
    /\ ticks = 2
    /\ \E idx \in (DOMAIN points) \ (DOMAIN pinned_points) :
         VSub(points[idx], old_points[idx]) # GravityStep

\* A step that is the spring loop of one pass.
SpringLoopStep == pc = "springs" /\ pc' # "springs"

\* C8 (pinned particles are left alone): the integration loop changes
\* neither the current nor the previous position of a pinned index, and the
\* spring loop never moves a pinned endpoint.
PinnedExcluded ==
    [][/\ IntegrateStep =>
            \A idx \in DOMAIN pinned_points :
                points'[idx] = points[idx] /\ old_points'[idx] = old_points[idx]
       /\ SpringLoopStep =>
            \A idx \in DOMAIN pinned_points : points'[idx] = points[idx]]_vars

\* A spring loop has run over a spring that joins a pinned and a free
\* particle and is not at its rest length.
PinnedExcludedWitness ==
    /\ last = "springs"
    /\ \E k \in 1 .. Len(springs) :
         /\ springs[k].p1 \in DOMAIN pinned_points
         /\ springs[k].p2 \notin DOMAIN pinned_points
         /\ Norm(VSub(points[springs[k].p2], points[springs[k].p1])) # springs[k].rest

\* A relaxation pass of update() has just ended.
AfterPass == last \in {"ground", "update"}

\* C9 (pin wins over drag): when update() drags an index the pin table
\* holds, the particle is at its pin target after every relaxation pass.
PinWinsOverDrag ==
    (AfterPass /\ dragged_point_info # <<>>
        /\ dragged_point_info[1].index \in DOMAIN pinned_points) =>
        points[dragged_point_info[1].index]
            = pinned_points[dragged_point_info[1].index]

\* update() has returned after dragging a pinned index toward a target that
\* is not its pin target.
PinWinsOverDragWitness ==
    /\ AfterUpdate
    /\ dragged_point_info # <<>>
    /\ dragged_point_info[1].index \in DOMAIN pinned_points
    /\ dragged_point_info[1].target_pos # pinned_points[dragged_point_info[1].index]
    /\ points[dragged_point_info[1].index] = pinned_points[dragged_point_info[1].index]

\* The values of last a right click leaves.
ClickLabels == {"click", "click_off", "click_replace"}

\* The pin table differs from pins at most at index idx.
SameExceptAt(pins, idx) ==
    /\ (DOMAIN pinned_points') \ {idx} = (DOMAIN pins) \ {idx}
    /\ \A k \in (DOMAIN pins) \ {idx} : pinned_points'[k] = pins[k]

\* C10 (redundant mutations are no-ops): a pin of a pinned index and an
\* unpin of an index that is not pinned leave the pin table as it is, a
\* reset or pin with no drag active leaves no drag active, no event raises,
\* and a pin or unpin that takes effect changes the entry of its index only.
RedundantNoOps ==
    [][events' = events + 1 =>
          /\ raised' = FALSE
          /\ last' \in {"stake", "stake_skip"} =>
                /\ StakeTarget \in DOMAIN pinned_points => pinned_points' = pinned_points
                /\ StakeTarget \notin DOMAIN pinned_points =>
                      StakeTarget \in DOMAIN pinned_points'
                /\ SameExceptAt(pinned_points, StakeTarget)
          /\ last' \in {"lift", "lift_skip"} =>
                /\ CurrentTieout \in DOMAIN pinned_points => pinned_points' = pinned_points
                /\ CurrentTieout \notin DOMAIN pinned_points =>
                      CurrentTieout \in DOMAIN pinned_points'
                /\ SameExceptAt(pinned_points, CurrentTieout)
          /\ last' \in {"unpin", "unpin_skip"} =>
                /\ CurrentTieout \notin DOMAIN pinned_points =>
                      pinned_points' = pinned_points
                /\ CurrentTieout \notin DOMAIN pinned_points'
                /\ SameExceptAt(pinned_points, CurrentTieout)
          /\ (dragged_tieout_info = <<>> /\ last' \notin ClickLabels) =>
                dragged_tieout_info' = <<>>
          /\ last' \notin {"reset", "reset_again"} =>
                (points' = points /\ old_points' = old_points)]_vars

\* A tie-out lifted with L was then staked with S: the second pin was
\* skipped and the pole-height target is still in the table.
RedundantNoOpsWitness ==
    /\ last = "stake_skip"
    /\ CurrentTieout \in DOMAIN pinned_points
    /\ pinned_points[CurrentTieout][2] = POLE_HEIGHT
    /\ ~raised

\* A step that is a right click on a tie-out.
ClickStep == events' = events + 1 /\ last' \in ClickLabels

\* A step that is the drag correction of one pass.
DragLoopStep == pc = "drag" /\ pc' # "drag"

\* C11 (single drag): the driver holds at most one drag and update() is given
\* at most one; a right click on a tie-out other than the dragged one makes
\* that tie-out the dragged one (the old index is no longer dragged), and the
\* drag correction of a pass moves no particle but the dragged one.
SingleDrag ==
    [][/\ Len(dragged_tieout_info') <= 1
       /\ Len(dragged_point_info') <= 1
       /\ (ClickStep /\ dragged_tieout_info # <<>>) =>
             \/ dragged_tieout_info' = <<>>
             \/ dragged_tieout_info'[1] # dragged_tieout_info[1]
       /\ (ClickStep /\ last' = "click_replace") =>
             /\ Len(dragged_tieout_info') = 1
             /\ dragged_tieout_info'[1] \notin DOMAIN pinned_points
       /\ DragLoopStep =>
             \A idx \in DOMAIN points :
                 points'[idx] # points[idx] =>
                     dragged_tieout_info = <<idx>>]_vars

\* A right click on a second tie-out has replaced the drag of a first one.
SingleDragWitness ==
    /\ last = "click_replace"
    /\ events = 2
    /\ Len(dragged_tieout_info) = 1
    /\ variant = "drag"

\* The grid pts is the canonical layout of the variant: a flat sheet at
\* height 3 m (high) or 1 cm (flat, drag), or a vertical sheet in the plane
\* z = 0 (hang), its first corner at -size/2, every spring at rest length.
CanonicalLayout(pts) ==
    /\ \A k \in 1 .. Len(springs) :
         Norm(VSub(pts[springs[k].p2], pts[springs[k].p1])) = springs[k].rest
    /\ pts[<<0, 0>>] =
         (CASE variant = "high" -> <<-(size \div 2), 3 * UNIT, -(size \div 2)>>
            [] variant = "hang" -> <<-(size \div 2), size \div 2, 0>>
            [] OTHER -> <<-(size \div 2), UNIT \div 100, -(size \div 2)>>)
    /\ \A idx \in DOMAIN pts :
         /\ pts[idx][1] >= pts[<<0, 0>>][1]
         /\ CASE variant = "high" -> pts[idx][2] = 3 * UNIT /\ pts[idx][3] >= pts[<<0, 0>>][3]
              [] variant = "hang" -> pts[idx][3] = 0 /\ pts[idx][2] <= pts[<<0, 0>>][2]
              [] OTHER -> pts[idx][2] = UNIT \div 100 /\ pts[idx][3] >= pts[<<0, 0>>][3]

\* C12 as stated (reset postcondition): a reset leaves previous equal to
\* current for every particle, in the canonical layout of the variant, an
\* empty pin table and no active drag.
ResetPostconditionEmptyTable ==
    [][ResetStep =>
          /\ old_points' = points'
          /\ CanonicalLayout(points')
          /\ pinned_points' = EmptyPins
          /\ dragged_tieout_info' = <<>>]_vars

\* C12 as amended: a reset leaves previous equal to current for every
\* particle, in the canonical layout of the variant, no active drag, and a
\* pin table without any of the earlier pins: it is empty, but for the two
\* top corners of the hanging sheet, pinned where the layout puts them.
ResetPostcondition ==
    [][ResetStep =>
          /\ old_points' = points'
          /\ CanonicalLayout(points')
          /\ pinned_points' =
                [idx \in PrePinned |->
                    <<(IF idx[2] = 0 THEN -1 ELSE 1) * (size \div 2), size \div 2, 0>>]
          /\ dragged_tieout_info' = <<>>]_vars

\* A reset has ended a drag that had moved the sheet for at least one tick.
ResetPostconditionWitness ==
    /\ last = "reset"
    /\ variant = "drag"
    /\ events = 2
    /\ ticks >= 1
    /\ dragged_point_info # <<>>
    /\ dragged_tieout_info = <<>>
    /\ old_points = points

\* The arguments break a precondition of the simulation.
BadArguments == num_points < 2 \/ size <= 0 \/ solver_iterations <= 0

\* C13 as stated (precondition violations): with N < 2, S <= 0 or an
\* iteration count that is not positive the constructor does not return a
\* simulation, and no update() ever runs.
PreconditionsRejected ==
    BadArguments => (pc \in {"new", "ctor", "failed"} /\ ticks = 0)

\* The bench holds one spring with exactly one end pinned and no drag.
StretchBench ==
    /\ ticks = 0
    /\ Len(springs) = 1
    /\ dragged_point_info = <<>>
    /\ Cardinality(DOMAIN pinned_points) = 1

\* |length - rest| of the bench's spring on the grid pts.
SpringError(pts) ==
    Abs(Norm(VSub(pts[springs[1].p2], pts[springs[1].p1])) - springs[1].rest)

\* C14 (convergence): one spring with one end pinned, stretched to twice its
\* rest length, no gravity (no integration before the passes): the spring
\* loop of each of the 10 passes strictly
\* lowers |length - rest|, the rest of the pass leaves it alone, and after
\* the 10th pass it is below 1% of the initial error (the rest length).
Convergence ==
    [][(StretchBench /\ ticks' = 0) =>
          /\ pc = "springs" => SpringError(points') < SpringError(points)
          /\ pc # "springs" => SpringError(points') = SpringError(points)
          /\ pc # "springs" => pass' <= 10
          /\ last' = "update" =>
                (pass' = 10 /\ 100 * SpringError(points') < springs[1].rest)]_vars

\* The 10th pass over a spring along the diagonal has ended: the free first
\* particle has moved toward the pinned second one and the spring is within
\* 1% of its rest length.
ConvergenceWitness ==
    /\ StretchBench
    /\ last = "update"
    /\ pass = 10
    /\ <<0, 1>> \in DOMAIN pinned_points
    /\ points[<<0, 0>>][2] > old_points[<<0, 0>>][2]
    /\ points[<<0, 0>>][3] > old_points[<<0, 0>>][3]
    /\ SpringError(points) > 0
    /\ 100 * SpringError(points) < springs[1].rest

\* The bench holds no spring and no pin, and one particle is dragged.
DragBench ==
    /\ ticks = 0
    /\ springs = <<>>
    /\ pinned_points = EmptyPins
    /\ dragged_point_info # <<>>

\* The vector from the dragged particle, on the grid pts, to its target.
Remaining(pts) ==
    VSub(dragged_point_info[1].target_pos, pts[dragged_point_info[1].index])

RECURSIVE FifthPower(_)
\* 5^k
FifthPower(k) == IF k = 0 THEN 1 ELSE 5 * FifthPower(k - 1)

\* C15 (drag convergence): a free particle no spring moves, dragged toward a
\* fixed target at or above its height: the drag correction of a pass leaves
\* each component of the remaining vector at a fifth of what it was (exactly
\* where a fifth is a whole number of millimetres, else to the millimetre),
\* nothing else in the pass moves a particle, and after k passes the
\* remaining distance is d * 0.2^k (exactly for the four passes 5^4 allows).
DragConvergence ==
    [][(DragBench /\ ticks' = 0) =>
          /\ pc = "drag" =>
                \A i \in 1 .. 3 :
                    /\ Abs(5 * Remaining(points')[i] - Remaining(points)[i]) <= 2
                    /\ Remaining(points)[i] % 5 = 0 =>
                          5 * Remaining(points')[i] = Remaining(points)[i]
          /\ pc # "drag" => points' = points
          /\ (pc = "ground" /\ pass' <= 4) =>
                /\ \A i \in 1 .. 3 :
                      FifthPower(pass') * Remaining(points')[i] = Remaining(old_points)[i]
                /\ FifthPower(pass') * Norm(Remaining(points'))
                      <= Norm(Remaining(old_points))
                /\ Norm(Remaining(old_points))
                      < FifthPower(pass') * (Norm(Remaining(points')) + 1)]_vars

\* The first pass of a drag over the offset (1875, 2500, -625) has ended: a
\* fifth of it is left.
DragConvergenceWitness ==
    /\ DragBench
    /\ last = "ground"
    /\ pass = 1
    /\ Remaining(old_points) = <<1875, 2500, -625>>
    /\ Remaining(points) = <<375, 500, -125>>

\* A step of update(): its integration loop or a phase of a pass.
UpdateStep == ticks' = ticks + 1 \/ pc # "events"

\* C16 (pins persist): no step of update() changes the pin table, the spring
\* list or the grid dimension, and an entry of the pin table goes or changes
\* its target only by an unpin of the selected tie-out it belongs to or by a
\* reset.
PinsPersist ==
    [][/\ UpdateStep =>
             /\ pinned_points' = pinned_points
             /\ springs' = springs
             /\ num_points' = num_points
             /\ DOMAIN points' = DOMAIN points
       /\ \A idx \in DOMAIN pinned_points :
             (idx \notin DOMAIN pinned_points' \/ pinned_points'[idx] # pinned_points[idx])
                 => \/ ResetStep
                    \/ /\ events' = events + 1
                       /\ last' = "unpin"
                       /\ idx = CurrentTieout]_vars

\* Two updates have run, the second one over a pin a key press had made at
\* a place the particle was not at: the entry is as the key press left it.
PinsPersistWitness ==
    /\ AfterUpdate
    /\ ticks = 2
    /\ events >= 1
    /\ variant # "hang"
    /\ \E idx \in DOMAIN pinned_points :
         /\ pinned_points[idx][2] \in {0, POLE_HEIGHT}
         /\ points[idx] = pinned_points[idx]

\* The pins and the ground hold on the grid pts.
PinsAndGroundHold(pts) ==
    /\ \A idx \in DOMAIN pinned_points : pts[idx] = pinned_points[idx]
    /\ \A idx \in DOMAIN pts :
         pts[idx][2] >= (IF variant = "hang" THEN -(2 * size) ELSE 0)

\* C17 (pass ordering): update() integrates once, then runs exactly 5 passes
\* (10 in the drag driver), each one the spring loop, then the drag
\* correction (drag driver only; it moves nothing without a drag), then the
\* pin loop, then the ground clamp; at the end of every pass every pinned
\* particle is at its target and every particle at or above the ground.
PassOrdering ==
    [][/\ (pc = "events" /\ ticks' = ticks + 1) => (pc' = "springs" /\ pass' = 0)
       /\ pc # "events" => ticks' = ticks
       /\ pc = "springs" =>
             (pc' = (IF variant = "drag" THEN "drag" ELSE "pins") /\ pass' = pass)
       /\ pc = "drag" =>
             /\ pc' = "pins"
             /\ pass' = pass
             /\ dragged_point_info = <<>> => points' = points
       /\ pc = "pins" => (pc' = "ground" /\ pass' = pass)
       /\ pc = "ground" =>
             /\ pass' = pass + 1
             /\ pass' <= (IF variant = "drag" THEN 10 ELSE 5)
             /\ pc' = (IF pass' = (IF variant = "drag" THEN 10 ELSE 5)
                       THEN "events" ELSE "springs")
             /\ PinsAndGroundHold(points')]_vars

\* The third pass of an update() of the drag driver has ended, with a pin
\* in the table and a drag toward a target below the ground: the pin holds
\* and the dragged particle lies on the ground.
PassOrderingWitness ==
    /\ last = "ground"
    /\ pc = "springs"
    /\ pass = 3
    /\ pinned_points # EmptyPins
    /\ dragged_point_info # <<>>
    /\ dragged_point_info[1].target_pos[2] < 0
    /\ points[dragged_point_info[1].index][2] = 0
    /\ PinsAndGroundHold(points)

\* The grid when the spring loop, started on the current grid, reaches its
\* k-th spring (k = Len(springs) + 1: when it ends).
GridAtSpring(k) == SpringPhase(points, SubSeq(springs, 1, k - 1), pinned_points)

\* The ends of the k-th spring are at one place on the grid pts.
Degenerate(pts, k) == pts[springs[k].p1] = pts[springs[k].p2]

\* C18 (zero-distance guard): a spring whose ends coincide when the spring
\* loop reaches it moves neither end and raises nothing; the loop goes on
\* over the other springs, and the pass goes on to its drag, pin and ground
\* phases.
ZeroDistanceGuard ==
    [][/\ raised' = FALSE
       /\ pc = "springs" =>
             /\ \A k \in 1 .. Len(springs) :
                   Degenerate(GridAtSpring(k), k) => GridAtSpring(k + 1) = GridAtSpring(k)
             /\ points' = GridAtSpring(Len(springs) + 1)
             /\ pc' = "drag"
       /\ (pc = "drag" /\ dragged_point_info # <<>>) =>
             Remaining(points') = VSub(Remaining(points), DragScale(Remaining(points)))
       /\ pc = "ground" => PinsAndGroundHold(points')]_vars

\* The first pass over the chain has ended: its first spring, both ends
\* free and at one place, was skipped (the first particle has not moved)
\* while its second spring pulled the other two particles together.
ZeroDistanceGuardWitness ==
    /\ last = "ground"
    /\ pass = 1
    /\ ticks = 0
    /\ Len(springs) = 2
    /\ pinned_points = EmptyPins
    /\ Degenerate(old_points, 1)
    /\ points[<<0, 0>>] = old_points[<<0, 0>>]
    /\ points[<<0, 1>>] # old_points[<<0, 1>>]
    /\ points[<<0, 2>>] # old_points[<<0, 2>>]
    /\ ~raised

\* The bench has a first spring, and its ends are at one place.
FirstDegenerate == IF springs = <<>> THEN FALSE ELSE Degenerate(points, 1)

PinInPlace ==
    [][(variant = "drag" /\ events' = events + 1) =>
          /\ (last' \in {"stake", "stake_skip"} /\ dragged_tieout_info # <<>>) =>
                /\ DOMAIN pinned_points' = DOMAIN pinned_points \cup {dragged_tieout_info[1]}
                /\ pinned_points'[dragged_tieout_info[1]] = points[dragged_tieout_info[1]]
                /\ SameExceptAt(pinned_points, dragged_tieout_info[1])
                /\ dragged_tieout_info' = <<>>
          /\ (last' \in {"stake", "stake_skip"} /\ dragged_tieout_info = <<>>) =>
                /\ DOMAIN pinned_points' = DOMAIN pinned_points \cup {CurrentTieout}
                /\ CurrentTieout \notin DOMAIN pinned_points =>
                      pinned_points'[CurrentTieout] = points[CurrentTieout]
                /\ SameExceptAt(pinned_points, CurrentTieout)
                /\ dragged_tieout_info' = <<>>
          /\ last' \in {"unpin", "unpin_skip"} =>
                /\ DOMAIN pinned_points' = DOMAIN pinned_points \ {CurrentTieout}
                /\ SameExceptAt(pinned_points, CurrentTieout)
                /\ dragged_tieout_info' = dragged_tieout_info
          /\ last' \in {"stake", "stake_skip", "unpin", "unpin_skip"} =>
                (points' = points /\ old_points' = old_points)]_vars

\* A corner was dragged for a tick and S was pressed: the corner is pinned
\* where the drag had brought it, the drag is over, and the selected centre
\* tie-out is not pinned.
PinInPlaceWitness ==
    /\ variant = "drag"
    /\ last = "stake"
    /\ ticks >= 1
    /\ dragged_tieout_info = <<>>
    /\ dragged_point_info # <<>>
    /\ dragged_point_info[1].index # CurrentTieout
    /\ dragged_point_info[1].index \in DOMAIN pinned_points
    /\ pinned_points[dragged_point_info[1].index] = points[dragged_point_info[1].index]
    /\ points[dragged_point_info[1].index]
          # LayoutPos(variant, size, num_points, dragged_point_info[1].index)
    /\ CurrentTieout \notin DOMAIN pinned_points

\* C21 (pin targets are not below the ground): in every driver, whatever
\* keys, clicks, resets and updates have happened, every target of the pin
\* table has y >= the ground level of the driver's update (0, or -2 * size
\* for the hanging sheet), and the ground clamp of a pass moves no pinned
\* particle.
PinTargetsAboveGround ==
    [][/\ \A idx \in DOMAIN pinned_points' :
             pinned_points'[idx][2] >= (IF variant = "hang" THEN -(2 * size) ELSE 0)
       /\ pc = "ground" =>
             \A idx \in DOMAIN pinned_points : points'[idx] = points[idx]]_vars

\* An update() has run over a stake at ground level, the lowest target the
\* flat drivers can pin: the staked particle is on its target.
PinTargetsAboveGroundWitness ==
    /\ AfterUpdate
    /\ variant \in {"high", "flat"}
    /\ \E idx \in DOMAIN pinned_points :
         /\ pinned_points[idx][2] = 0
         /\ points[idx] = pinned_points[idx]
         /\ old_points[idx][2] > 0

\* C22 (the dragged index is never pinned): in every state of the frame loop
\* the index of the active drag, if there is one, is not a key of the pin
\* table.
DraggedNotPinned ==
    dragged_tieout_info # <<>> => dragged_tieout_info[1] \notin DOMAIN pinned_points

\* A drag is active next to a pinned tie-out, and an update() has pulled the
\* dragged particle.
DraggedNotPinnedWitness ==
    /\ AfterUpdate
    /\ dragged_tieout_info # <<>>
    /\ dragged_point_info # <<>>
    /\ pinned_points # EmptyPins

\* The coordinates get_tieout_indices() returns.
TieoutSet == {TieoutIndices(num_points)[k] : k \in 1 .. 9}

\* C23 (pin table keys are tie-outs): in every driver and every state, each
\* key of the pin table is one of the 9 coordinates of get_tieout_indices(),
\* the selection index is in 0 .. 8 whatever left and right keys were
\* pressed, and the pin table holds at most 9 entries.
PinKeysAreTieouts ==
    /\ DOMAIN pinned_points \subseteq TieoutSet
    /\ selected_tieout_index \in 0 .. 8
    /\ Cardinality(DOMAIN pinned_points) <= 9

\* On a grid with nine distinct tie-outs the first and the last tie-out are
\* pinned, and the selection has just wrapped round from the first to the
\* last.
PinKeysAreTieoutsWitness ==
    /\ Cardinality(TieoutSet) = 9
    /\ {TieoutIndices(num_points)[1], TieoutIndices(num_points)[9]}
           \subseteq DOMAIN pinned_points
    /\ last = "select_wrap"
    /\ selected_tieout_index = 8

\* C24 (stale previous position of a pinned particle): as long as an index
\* stays in the pin table and the tarp is not reset, no step changes its
\* previous position; the unpin leaves the particle on its pin target with
\* that previous position; and the integration loop that follows the unpin
\* moves the particle by (current - stale previous) + gravity * dt^2.
StalePrevious ==
    [][/\ ~ResetStep =>
            \A idx \in (DOMAIN pinned_points) \cap (DOMAIN pinned_points') :
                old_points'[idx] = old_points[idx]
       /\ last' = "unpin" =>
            /\ old_points'[CurrentTieout] = old_points[CurrentTieout]
            /\ last = "update" => points'[CurrentTieout] = pinned_points[CurrentTieout]
       /\ (last = "unpin" /\ IntegrateStep) =>
            points'[CurrentTieout] =
                VAdd(points[CurrentTieout],
                     VAdd(VSub(points[CurrentTieout], old_points[CurrentTieout]),
                          GravityStep))]_vars

\* The integration loop has just run after the unpin of a tie-out that was
\* lifted to the pole height one update() before: the particle has left the
\* pole height with the whole distance from its stale previous position, not
\* with gravity alone.
StalePreviousWitness ==
    /\ last = "integrate"
    /\ ticks = 2
    /\ events = 2
    /\ CurrentTieout \notin DOMAIN pinned_points
    /\ old_points[CurrentTieout][2] = POLE_HEIGHT
    /\ Abs(points[CurrentTieout][2] - old_points[CurrentTieout][2])
          > 100 * Abs(GravityStep[2])

=============================================================================
